---- MODULE Spec2Model ----
(***************************************************************************)
(* Range-aware static file server (serve_example.py).                      *)
(*                                                                         *)
(* The model follows RangeRequestHandler: send_head (resolve the path,     *)
(* open the file, parse the Range header, emit status and headers) and     *)
(* copyfile (stream the body, close the file), driven once per accepted    *)
(* connection by the listener of main().                                   *)
(*                                                                         *)
(* Text is modelled as a sequence of one-character strings, so the         *)
(* regular expression, int() and the f-string of Content-Range are         *)
(* computed character by character.                                        *)
(***************************************************************************)
EXTENDS Integers, Sequences, FiniteSets, TLC

VARIABLES
    h,          \* h[w]: the handler instance and response of worker slot w
    disk,       \* the served directory: file name -> content (a byte sequence)
    listener,   \* state of the listening socket of main()
    main,       \* main(): its position, the ports it probed, its exit
    had404      \* an earlier connection was answered 404

vars == <<h, disk, listener, main, had404>>

----------------------------------------------------------------------------
(* Bounds of the model *)

\* largest file size on the disk
MaxSize == 3
\* longest text after the range unit in a Range header
MaxTail == 3
\* exceptions other than KeyboardInterrupt that end serve_forever in one run
MaxLoopErrors == 1
\* most components ('/'-separated parts) of a request path
MaxDepth == 3
\* worker slots (threads alive at the same time)
NumWorkers == 2
\* bytes moved by one read; the code reads 64 * 1024 at a time, the model
\* scales this down so that the copy loops iterate on model-sized files
ChunkSize == 2

Workers == 1..NumWorkers

----------------------------------------------------------------------------
(* Text *)

Digits == <<"0", "1", "2", "3", "4", "5", "6", "7", "8", "9">>

IsDigit(c) == \E i \in 1..10 : Digits[i] = c

DigitVal(c) == (CHOOSE i \in 1..10 : Digits[i] = c) - 1

\* int(s) for a non-empty run of decimal digits
RECURSIVE ParseInt(_)
ParseInt(s) ==
    IF Len(s) = 0 THEN 0
    ELSE 10 * ParseInt(SubSeq(s, 1, Len(s) - 1)) + DigitVal(s[Len(s)])

RECURSIVE NatStr(_)
NatStr(n) ==
    IF n < 10 THEN <<Digits[n + 1]>>
    ELSE NatStr(n \div 10) \o <<Digits[(n % 10) + 1]>>

\* str(n), as used by the f-string and by str(end - start + 1)
IntStr(n) == IF n < 0 THEN <<"-">> \o NatStr(-n) ELSE NatStr(n)

HasPrefix(s, p) == Len(s) >= Len(p) /\ SubSeq(s, 1, Len(p)) = p

\* length of the longest run of digits of s that starts at index i
RECURSIVE DigitRun(_, _)
DigitRun(s, i) ==
    IF i <= Len(s) /\ IsDigit(s[i]) THEN 1 + DigitRun(s, i + 1) ELSE 0

BytesEq == <<"b", "y", "t", "e", "s", "=">>

----------------------------------------------------------------------------
(* Range parsing: send_head, lines 33-39 *)

NoMatch == [ok |-> FALSE, g1 |-> <<>>, g2 |-> <<>>]

\* re.match(r'bytes=(\d+)-(\d*)', rh): anchored at the start of rh only, both
\* digit groups greedy; what follows the second group is not looked at
ReMatch(rh) ==
    LET n1 == DigitRun(rh, Len(BytesEq) + 1)
        dash == Len(BytesEq) + n1 + 1
        n2 == DigitRun(rh, dash + 1)
    IN  IF HasPrefix(rh, BytesEq) /\ n1 >= 1 /\ dash <= Len(rh) /\ rh[dash] = "-"
        THEN [ok |-> TRUE,
              g1 |-> SubSeq(rh, Len(BytesEq) + 1, dash - 1),
              g2 |-> SubSeq(rh, dash + 1, dash + n2)]
        ELSE NoMatch

\* start = int(m.group(1))
RangeStart(m) == ParseInt(m.g1)

\* faulty variant: an omitted end defaults to size instead of size - 1
RangeEndAtSize(m, size) == IF Len(m.g2) > 0 THEN ParseInt(m.g2) ELSE size

\* end = m.group(2); end = int(end) if end else size - 1
RangeEnd(m, size) == IF Len(m.g2) > 0 THEN ParseInt(m.g2) ELSE size - 1

\* faulty variant: start > size
UnsatisfiableStrict(start, size) == start > size

\* if start >= size
Unsatisfiable(start, size) == start >= size

\* f'bytes {start}-{end}/{size}'
ContentRange(start, end, size) ==
    <<"b", "y", "t", "e", "s", " ">> \o IntStr(start) \o <<"-">> \o IntStr(end)
        \o <<"/">> \o IntStr(size)

\* str(end - start + 1)
PartialLength(start, end) == IntStr(end - start + 1)

\* faulty variant: the last offset instead of the length
FullLengthLastOffset(size) == IntStr(size - 1)

\* str(size)
FullLength(size) == IntStr(size)

\* faulty variant: the seek is missing
SeekOffsetMissing(start) == 0

\* f.seek(start): the offset the next read starts at
SeekOffset(start) == start

\* self.guess_type(path): by extension, application/octet-stream otherwise
GuessType(path) ==
    IF path \in {"index.html", "missing.html"} THEN "text/html"
    ELSE "application/octet-stream"

----------------------------------------------------------------------------
(* Streaming: copyfile, lines 64-79 *)

Min(a, b) == IF a <= b THEN a ELSE b

\* remain = end - start + 1
Remain(start, end) == end - start + 1

\* min(bs, remain)
ReadSize(remain) == Min(ChunkSize, remain)

\* source.read(n) on a file with this content, positioned at offset pos:
\* up to n bytes, fewer only at the end of the file
FileRead(content, pos, n) ==
    SubSeq(content, pos + 1, Min(pos + n, Len(content)))

----------------------------------------------------------------------------
(* The served directory and the requests *)

FileName == "index.html"

Paths == {"index.html", "missing.html"}

\* test content: the byte at offset i is 65 + i, so every offset is recognisable
FileBytes(n) == [i \in 1..n |-> 64 + i]

TailAlphabet == {"0", "1", "2", "-", ","}

RECURSIVE Texts(_)
Texts(n) ==
    IF n = 0 THEN {<<>>}
    ELSE LET shorter == Texts(n - 1)
         IN  shorter \cup {Append(t, c) : t \in shorter, c \in TailAlphabet}

Absent == [present |-> FALSE, value |-> <<>>]

\* the values of the Range header a client may send: none, the range unit
\* followed by any short text, and any short text without the unit
RangeHeaders ==
    {Absent}
        \cup {[present |-> TRUE, value |-> BytesEq \o t] : t \in Texts(MaxTail)}
        \cup {[present |-> TRUE, value |-> t] : t \in Texts(MaxTail - 1)}

----------------------------------------------------------------------------
(* Request paths: translate_path, called at line 18 *)

\* the parts of a request path between its slashes, percent-decoded; ""
\* comes from a doubled or a trailing slash
Components == {"..", ".", "", "index.html", "secret"}

RECURSIVE Words(_)
Words(n) ==
    IF n = 0 THEN {<<>>}
    ELSE LET shorter == Words(n - 1)
         IN  shorter \cup {Append(t, c) : t \in shorter, c \in Components}

\* the request paths of the model, as the sequence of their components
Urls == Words(MaxDepth) \ {<<>>}

\* path.rstrip().endswith('/')
TrailingSlash(words) == Len(words) > 0 /\ words[Len(words)] = ""

Pop(stack) == SubSeq(stack, 1, Len(stack) - 1)

\* posixpath.normpath of a path that begins with a slash: empty components
\* and '.' are dropped, '..' takes the component before it away and is
\* dropped when there is none
RECURSIVE NormPath(_, _)
NormPath(words, stack) ==
    IF words = <<>> THEN stack
    ELSE LET c == Head(words) IN
         NormPath(Tail(words),
                  IF c \in {"", "."} THEN stack
                  ELSE IF c = ".." THEN Pop(stack)
                  ELSE Append(stack, c))

\* the loop of translate_path: a word that is '.' or '..' is skipped
SafeWords(words) == SelectSeq(words, LAMBDA c : c \notin {".", ".."})

\* faulty variant: os.path.join(directory, path) with the path as it came
TranslatePathJoin(words) == words

\* translate_path: the components that are joined onto the directory
TranslatePath(words) == SafeWords(NormPath(words, <<>>))

\* what the operating system makes of a relative path: '..' goes up, out of
\* the directory when nothing is left to leave
RECURSIVE OsNorm(_, _)
OsNorm(words, stack) ==
    IF words = <<>> THEN stack
    ELSE LET c == Head(words) IN
         OsNorm(Tail(words),
                IF c \in {"", "."} THEN stack
                ELSE IF c = ".." /\ stack # <<>> /\ stack[Len(stack)] # ".."
                     THEN Pop(stack)
                     ELSE Append(stack, c))

\* a file next to the served directory, and the names of the directory
\* itself and of its parent
Outside == "../secret"
RootDir == "."
ParentDir == ".."
NoFile == "(no such file)"

\* what directory + rel names on the disk; slash: the path ends with '/',
\* which only a directory can take
OsKey(rel, slash) ==
    LET n == OsNorm(rel, <<>>) IN
    IF n = <<>> THEN RootDir
    ELSE IF n = <<"..">> THEN ParentDir
    ELSE IF slash THEN NoFile
    ELSE IF Len(n) = 1 THEN n[1]
    ELSE IF n = <<"..", "secret">> THEN Outside
    ELSE NoFile

\* os.path.isdir(path)
IsDir(key) == key \in {RootDir, ParentDir}

\* the file that a request for the path `words` names
Translated(words) == OsKey(TranslatePath(words), TrailingSlash(words))

NoHeaders == [ctype |-> "", acceptRanges |-> "", contentRange |-> <<>>,
              contentLength |-> <<>>]

\* range_request = None
None == <<>>

----------------------------------------------------------------------------
\* Logging: log_message and the calls that reach it.  A call is the tuple
\* of its *args, every argument taken as its text str(arg).

\* self.requestline, as far as the log is concerned
RequestLine == <<"G", "E", "T">>

\* the message of send_error(404, ...) and of send_error(416, ...)
ErrorMessage(code) ==
    IF code = 404 THEN <<"F", "i", "l", "e", " ", "n", "o", "t", " ",
                         "f", "o", "u", "n", "d">>
    ELSE <<"R", "e", "q", "u", "e", "s", "t", "e", "d", " ",
           "R", "a", "n", "g", "e", " ", "N", "o", "t", " ",
           "S", "a", "t", "i", "s", "f", "i", "a", "b", "l", "e">>

\* str.startswith for a one-character prefix
StartsWith(text, c) == Len(text) > 0 /\ text[1] = c

\* faulty variant: the filter looks at the first argument
SuppressedByFirst(args) ==
    /\ Len(args) > 1
    /\ StartsWith(args[1], "2") \/ StartsWith(args[1], "3")

\* lines 83-86: the call returns before super().log_message: args[1] of
\* the code is args[2] here
Suppressed(args) ==
    /\ Len(args) > 1
    /\ StartsWith(args[2], "2") \/ StartsWith(args[2], "3")

\* lines 81-87: one call of log_message, reached through log_request or
\* log_error; written says whether super().log_message ran
LogMessage(r, via, args) ==
    [r EXCEPT !.calls = Append(@, [via |-> via, args |-> args,
                                   written |-> ~Suppressed(args)])]

\* log_request(code): log_message('"%s" %s %s', requestline, code, size)
LogRequest(r, code) ==
    LogMessage(r, "log_request", <<RequestLine, IntStr(code), <<"-">>>>)

\* log_error("code %d, message %s", code, message) of send_error
LogError(r, code) ==
    LogMessage(r, "log_error", <<IntStr(code), ErrorMessage(code)>>)

\* RangeRequestHandler.__init__: a new instance for every connection, with
\* range_request = None; the other fields are the locals of send_head and
\* copyfile and what the instance has put on the wire
NewHandler(path, rh) ==
    [pc |-> "Resolving",
     command |-> "GET",       \* self.command: GET or HEAD
     url |-> <<path>>,        \* self.path, the request path
     path |-> path,           \* translate_path(self.path)
     delegated |-> FALSE,     \* a directory: answered by the base class
     rh |-> rh,
     f |-> "none",            \* the file object: none, open, closed
     pos |-> 0,               \* its offset
     size |-> 0,              \* fs.st_size
     range_request |-> None,
     remain |-> 0,
     statuses |-> <<>>,       \* status lines emitted, in order
     hdr |-> NoHeaders,       \* headers emitted by send_head
     errorPage |-> 0,         \* status of the page send_error wrote, 0: none
     body |-> <<>>,           \* file bytes written to the client
     raised |-> "",           \* exception that ended the handler, "": none
     calls |-> <<>>,          \* the calls of log_message, in order
     lateRead |-> FALSE]      \* a read was issued on a closed file

IdleHandler == [NewHandler(FileName, Absent) EXCEPT !.pc = "Idle"]

Busy(w) == h[w].pc # "Idle"

\* faulty variant: worker threads that run on after the process has exited
AliveForever(w) == TRUE

\* daemon_threads = True: a worker thread takes steps only as long as the
\* process lives; the end of the process cuts it off where it stands
Alive(w) == main.pc # "Exited"

\* port = 5500
port == 5500

\* range(port, port + 20)
ScanWindow == 20

\* main() at the top of its for loop, nothing probed yet
MainStart ==
    [pc |-> "Scan",
     i |-> 0,             \* candidates of range(port, port + 20) used up
     probes |-> <<>>,     \* ports handed to ThreadedTCPServer, in order
     bound |-> <<>>,      \* ports a listening socket was bound to, in order
     served |-> <<>>,     \* ports whose serve_forever was entered
     closed |-> <<>>,     \* one entry per server_close() of a bound socket
     fatalAt |-> 0,       \* number of the first probe that failed otherwise
                          \* than by 'address already in use', 0: none
     loopErrors |-> 0,    \* exceptions that ended serve_forever
     pending |-> "",      \* exception on its way through the finally clause
     diag |-> <<>>,       \* the port range named by the final message
     error |-> "",        \* exception that left main()
     exit |-> -1,         \* exit status of the process, -1: running
     interrupted |-> FALSE]  \* a KeyboardInterrupt stopped serve_forever

\* main() inside serve_forever on the first candidate port
MainServing ==
    [MainStart EXCEPT !.pc = "Serve", !.i = 0, !.probes = <<port>>,
                      !.bound = <<port>>, !.served = <<port>>]

\* the server is up and serving its directory
Init ==
    /\ \E n \in 0..MaxSize : disk = [p \in {FileName} |-> FileBytes(n)]
    /\ h = [w \in Workers |-> IdleHandler]
    /\ listener = "Listening"
    /\ main = MainServing
    /\ had404 = FALSE

\* faulty variant: an exception that leaves a handler takes the other
\* connections down with it
FinishCrashes(w, r) ==
    /\ h' = [v \in Workers |->
                IF v = w THEN [r EXCEPT !.pc = "Done"]
                ELSE IF r.raised # "" THEN IdleHandler ELSE h[v]]
    /\ had404' = (had404 \/ 404 \in {r.statuses[i] : i \in 1..Len(r.statuses)})

\* the handler of worker w ends with record r: the connection is completed.
\* An exception that leaves the handler ends in the thread of its connection
\* (process_request_thread reports it and closes the connection)
Finish(w, r) ==
    /\ h' = [h EXCEPT ![w] = [r EXCEPT !.pc = "Done"]]
    /\ had404' = (had404 \/ 404 \in {r.statuses[i] : i \in 1..Len(r.statuses)})

\* serve_forever of ThreadedTCPServer: accept a connection and hand it to a
\* new thread, which constructs the handler; at most `limit` threads are
\* alive, and the request is one of `requests`, pairs of a path and a Range
\* header
AcceptOf(w, limit, requests) ==
    /\ listener = "Listening"
    /\ ~Busy(w)
    /\ \A v \in Workers : v < w => Busy(v)
    /\ Cardinality({v \in Workers : Busy(v)}) < limit
    /\ \E req \in requests :
           h' = [h EXCEPT ![w] = NewHandler(req[1], req[2])]
    /\ UNCHANGED <<disk, listener, main, had404>>

Accept(w, limit) == AcceptOf(w, limit, Paths \X RangeHeaders)

\* self.send_error(code, ...): status line and an error page
SendError(r, code) ==
    [LogRequest(LogError(r, code), code) EXCEPT
        !.statuses = Append(@, code),
        !.errorPage = IF r.command = "HEAD" THEN 0 ELSE code]

\* faulty variant: the OSError of open() is not caught, nothing is sent
ResolveNoCatch(w, sent) ==
    /\ Alive(w)
    /\ h[w].pc = "Resolving"
    /\ LET r == [h[w] EXCEPT !.path = Translated(h[w].url)] IN
       IF IsDir(r.path)
       THEN sent /\ Finish(w, [r EXCEPT !.delegated = TRUE])
       ELSE IF r.path \in DOMAIN disk
       THEN /\ sent
            /\ h' = [h EXCEPT ![w] = [r EXCEPT !.pc = "Opened", !.f = "open",
                                                !.pos = 0]]
            /\ UNCHANGED had404
       ELSE /\ sent
            /\ Finish(w, [r EXCEPT !.raised = "open"])
    /\ UNCHANGED <<disk, listener, main>>

\* send_head, lines 18-25: translate the path; hand a directory over to the
\* base class; open the file, or answer 404. `sent` is whether the client
\* took what was written (a failed write raises out of the handler)
Resolve(w, sent) ==
    /\ Alive(w)
    /\ h[w].pc = "Resolving"
    /\ LET r == [h[w] EXCEPT !.path = Translated(h[w].url)] IN
       IF IsDir(r.path)
       THEN sent /\ Finish(w, [r EXCEPT !.delegated = TRUE])
       ELSE IF r.path \in DOMAIN disk
       THEN /\ sent
            /\ h' = [h EXCEPT ![w] = [r EXCEPT !.pc = "Opened", !.f = "open",
                                                !.pos = 0]]
            /\ UNCHANGED had404
       ELSE Finish(w, [SendError(r, 404) EXCEPT
                           !.raised = IF sent THEN "" ELSE "write"])
    /\ UNCHANGED <<disk, listener, main>>

\* if rh: a header that is absent or empty is not looked at
HasRange(rh) == rh.present /\ Len(rh.value) > 0

\* lines 33-35: the match object, when the header is looked at and matches
RangeMatch(rh) == IF HasRange(rh) THEN ReMatch(rh.value) ELSE NoMatch

\* faulty variant: the return after the 416 is missing and the code goes on
\* to the full response
Respond416FallThrough(r) ==
    [SendError(r, 416) EXCEPT !.f = "closed", !.statuses = Append(@, 200)]

\* lines 40-42: 416, close the file, return None
Respond416(r) == [SendError(r, 416) EXCEPT !.f = "closed"]

\* lines 43-48: status 206 and the headers of a partial response
Emit206(r, start, end) ==
    [LogRequest(r, 206) EXCEPT !.statuses = Append(@, 206),
              !.hdr = [ctype |-> GuessType(r.path),
                       acceptRanges |-> "bytes",
                       contentRange |-> ContentRange(start, end, r.size),
                       contentLength |-> PartialLength(start, end)]]

\* lines 49-51: seek, record the range, return f
Return206(r, start, end) ==
    [r EXCEPT !.pos = SeekOffset(start), !.range_request = <<start, end>>]

\* faulty variant: a full response that also names a range
Emit200WithRange(r) ==
    [LogRequest(r, 200) EXCEPT !.statuses = Append(@, 200),
              !.hdr = [ctype |-> GuessType(r.path),
                       acceptRanges |-> "bytes",
                       contentRange |-> ContentRange(0, r.size - 1, r.size),
                       contentLength |-> FullLength(r.size)]]

\* lines 53-57: status 200 and the headers of a full response
Emit200(r) ==
    [LogRequest(r, 200) EXCEPT !.statuses = Append(@, 200),
              !.hdr = [ctype |-> GuessType(r.path),
                       acceptRanges |-> "bytes",
                       contentRange |-> <<>>,
                       contentLength |-> FullLength(r.size)]]

\* lines 58-59: no range, return f
Return200(r) == [r EXCEPT !.range_request = None]

\* faulty variant: the exception leaves send_head without closing the file
RaiseNoClose(r, what) == [r EXCEPT !.raised = what]

\* lines 60-62: except Exception: f.close(); raise
CloseAndRaise(r, what) == [r EXCEPT !.f = "closed", !.raised = what]

\* lines 27-62 for a handler r whose file is open and has `size` bytes.
\* The result has pc = "CopyFile" when send_head returns f, and any other pc
\* when it returns None or raises.
SendHeadBody(r0, size, sent) ==
    LET r == [r0 EXCEPT !.size = size]
        m == RangeMatch(r.rh)
        start == RangeStart(m)
        end == RangeEnd(m, size)
    IN  IF m.ok
        THEN IF Unsatisfiable(start, size)
             THEN IF sent THEN Respond416(r)
                  ELSE CloseAndRaise(SendError(r, 416), "write")
             ELSE IF sent
                  THEN [Return206(Emit206(r, start, end), start, end)
                            EXCEPT !.pc = "CopyFile"]
                  ELSE CloseAndRaise(Emit206(r, start, end), "write")
        ELSE IF sent THEN [Return200(Emit200(r)) EXCEPT !.pc = "CopyFile"]
             ELSE CloseAndRaise(Emit200(r), "write")

\* send_head after the file was opened
SendHead(w, sent) ==
    /\ Alive(w)
    /\ h[w].pc = "Opened"
    /\ LET r == SendHeadBody(h[w], Len(disk[h[w].path]), sent) IN
       IF r.pc = "CopyFile"
       THEN h' = [h EXCEPT ![w] = r] /\ UNCHANGED had404
       ELSE Finish(w, r)
    /\ UNCHANGED <<disk, listener, main>>

\* copyfile, lines 66-69: choose the loop
EnterCopy(r) ==
    IF r.range_request # None
    THEN [r EXCEPT !.pc = "RangeLoop",
                   !.remain = Remain(r.range_request[1], r.range_request[2])]
    ELSE [r EXCEPT !.pc = "FullLoop"]

\* faulty variant: range_request is an attribute of the class, one slot
\* for all handlers
SelfShared(w) == 1

\* the handler instance that `self` names in the thread of worker w: the
\* one its own connection constructed, whose __init__ made the attribute
Self(w) == w

\* do_GET: send_head returned the file, copyfile streams it
CopyFile(w) ==
    /\ Alive(w)
    /\ h[w].pc = "CopyFile"
    /\ h[w].command = "GET"
    /\ h' = [h EXCEPT ![w] =
                EnterCopy([h[w] EXCEPT !.range_request = h[Self(w)].range_request])]
    /\ UNCHANGED <<disk, listener, main, had404>>

\* faulty variant: an empty read does not leave the loop
ReadWriteNoBreak(r, content, n, io) ==
    LET chunk == FileRead(content, r.pos, n)
    IN  [r EXCEPT !.pos = @ + Len(chunk),
                  !.body = @ \o chunk,
                  !.remain = @ - Len(chunk)]

\* faulty variant: HEAD streams the file as GET does
HeadStreams(w) ==
    /\ Alive(w)
    /\ h[w].pc = "CopyFile"
    /\ h[w].command = "HEAD"
    /\ h' = [h EXCEPT ![w] = EnterCopy(h[w])]
    /\ UNCHANGED <<disk, listener, main, had404>>

\* do_HEAD of the base class: f = self.send_head(); if f: f.close().
\* copyfile is not called
HeadClose(w) ==
    /\ Alive(w)
    /\ h[w].pc = "CopyFile"
    /\ h[w].command = "HEAD"
    /\ Finish(w, [h[w] EXCEPT !.f = "closed"])
    /\ UNCHANGED <<disk, listener, main>>

\* one read of n bytes and the write of what it returned; io is "ok", or the
\* call that raises: "read" or "write"
ReadWrite(r, content, n, io) ==
    LET chunk == FileRead(content, r.pos, n)
        rd == [r EXCEPT !.lateRead = @ \/ r.f # "open"]
    IN  IF io = "read" THEN [rd EXCEPT !.raised = "read", !.pc = "Finally"]
        ELSE IF chunk = <<>> THEN [rd EXCEPT !.pc = "Finally"]
        ELSE IF io = "write"
             THEN [rd EXCEPT !.pos = @ + Len(chunk), !.raised = "write",
                             !.pc = "Finally"]
             ELSE [rd EXCEPT !.pos = @ + Len(chunk),
                             !.body = @ \o chunk,
                             !.remain = @ - Len(chunk)]

\* is the loop condition of the range copy true
RangeLoopGoesOn(remain) == remain > 0

\* copyfile, lines 70-75: one turn of the range loop
RangeLoop(w, io) ==
    /\ Alive(w)
    /\ h[w].pc = "RangeLoop"
    /\ LET r == h[w] IN
       IF RangeLoopGoesOn(r.remain)
       THEN LET n == ReadSize(r.remain) IN
            /\ io = "write" => FileRead(disk[r.path], r.pos, n) # <<>>
            /\ h' = [h EXCEPT ![w] = ReadWrite(r, disk[r.path], n, io)]
       ELSE /\ io = "ok"
            /\ h' = [h EXCEPT ![w].pc = "Finally"]
    /\ UNCHANGED <<disk, listener, main, had404>>

\* copyfile, line 77: one turn of the copy loop of the base class, which reads
\* until the source returns no data
FullLoop(w, io) ==
    /\ Alive(w)
    /\ h[w].pc = "FullLoop"
    /\ LET r == h[w] IN
       /\ io = "write" => FileRead(disk[r.path], r.pos, ChunkSize) # <<>>
       \* this loop keeps no budget
       /\ h' = [h EXCEPT ![w] = [ReadWrite(r, disk[r.path], ChunkSize, io)
                                     EXCEPT !.remain = 0]]
    /\ UNCHANGED <<disk, listener, main, had404>>

\* copyfile, lines 78-79: finally: source.close()
CloseSource(r) == [r EXCEPT !.f = "closed"]

Finally(w) ==
    /\ Alive(w)
    /\ h[w].pc = "Finally"
    /\ Finish(w, CloseSource(h[w]))
    /\ UNCHANGED <<disk, listener, main>>

\* the thread of a completed connection ends and its handler instance is gone
ThreadExit(w) ==
    /\ Alive(w)
    /\ h[w].pc = "Done"
    /\ h' = [h EXCEPT ![w] = IdleHandler]
    /\ UNCHANGED <<disk, listener, main, had404>>

\* main, lines 129-134: KeyboardInterrupt ends serve_forever, is caught and
\* reported; the finally clause calls shutdown(), which returns at once
\* because serve_forever has ended
Interrupt ==
    /\ listener = "Listening"
    /\ main.pc = "Serve"
    /\ listener' = "ShuttingDown"
    /\ main' = [main EXCEPT !.pc = "Close", !.interrupted = TRUE]
    /\ UNCHANGED <<h, disk, had404>>

\* faulty variant: the loop body without its break
AfterFinallyNoBreak(m) ==
    [m EXCEPT !.pc = "Scan", !.i = @ + 1, !.pending = ""]

\* what main() does once the finally clause is through, lines 136-145: break
\* when nothing is pending; re-raise an OSError that is not 'address already
\* in use'; sleep and continue with the next candidate for any other Exception
AfterFinally(m) ==
    IF m.pending = "" THEN [m EXCEPT !.pc = "Return"]
    ELSE IF m.pending = "oserror"
         THEN [m EXCEPT !.pc = "Exited", !.error = "oserror", !.exit = 1,
                        !.pending = ""]
         ELSE [m EXCEPT !.pc = "Scan", !.i = @ + 1, !.pending = ""]

\* faulty variant: a finally clause without server_close()
CloseListenerNever(m) == m

\* server_close(): the listening socket of the current port is closed
CloseListener(m) == [m EXCEPT !.closed = Append(@, m.bound[Len(m.bound)])]

\* faulty variant: server_close() joins the worker threads, as it does for
\* threads that are not daemon threads
ServerCloseJoins ==
    /\ \A w \in Workers : ~Busy(w)
    /\ listener = "ShuttingDown"
    /\ main.pc = "Close"
    /\ listener' = "Stopped"
    /\ main' = AfterFinally(CloseListener(main))
    /\ UNCHANGED <<h, disk, had404>>

\* main, lines 135-145: server_close(), then out of the try statement. The
\* worker threads are daemon threads, which server_close() does not join
ServerClose ==
    /\ listener = "ShuttingDown"
    /\ main.pc = "Close"
    /\ listener' = "Stopped"
    /\ main' = AfterFinally(CloseListener(main))
    /\ UNCHANGED <<h, disk, had404>>

\* main() returns after the break and the interpreter exits with status 0,
\* without waiting for the daemon threads
Exit ==
    /\ main.pc = "Return"
    /\ main' = [main EXCEPT !.pc = "Exited", !.exit = 0]
    /\ UNCHANGED <<h, disk, listener, had404>>

IO == {"ok", "read", "write"}

\* one request at a time
Next ==
    \/ \E w \in Workers : Accept(w, 1)
    \/ \E w \in Workers, sent \in BOOLEAN : Resolve(w, sent)
    \/ \E w \in Workers, sent \in BOOLEAN : SendHead(w, sent)
    \/ \E w \in Workers : CopyFile(w)
    \/ \E w \in Workers, io \in IO : RangeLoop(w, io)
    \/ \E w \in Workers, io \in IO : FullLoop(w, io)
    \/ \E w \in Workers : Finally(w)
    \/ \E w \in Workers : ThreadExit(w)
    \/ Interrupt
    \/ ServerClose
    \/ Exit

Spec == Init /\ [][Next]_vars

----------------------------------------------------------------------------
(* main(): the port scan and the life of the listener, lines 116-148 *)

\* what ThreadedTCPServer(('', p), Handler) can do: bind and listen, fail
\* with 'address already in use', fail with another OSError, or raise an
\* exception that is no OSError (a port above 65535 raises OverflowError)
BindOutcomes == {"ok", "inuse", "oserror", "other"}

\* the probe of port p is noted
Probed(m, p) == [m EXCEPT !.probes = Append(@, p)]

\* the first probe that failed otherwise than by 'address already in use'
NoteFatal(m) ==
    [m EXCEPT !.fatalAt = IF @ = 0 THEN Len(m.probes) ELSE @]

\* lines 117-145 for candidate p, up to the launch of the browser:
\* line 118 succeeds; or lines 137-141: an OSError with errno 10048 or the
\* text 'Address already in use' moves on to the next candidate; line 142:
\* any other OSError is raised again; lines 143-145: any other Exception
\* moves on to the next candidate
AfterBind(m, p, outcome) ==
    LET m1 == Probed(m, p) IN
    IF outcome = "ok"
    THEN [m1 EXCEPT !.pc = "Launch", !.bound = Append(@, p)]
    ELSE IF outcome = "inuse" THEN [m1 EXCEPT !.i = @ + 1]
    ELSE IF outcome = "oserror"
         THEN [NoteFatal(m1) EXCEPT !.pc = "Exited", !.error = "oserror",
                                    !.exit = 1]
         ELSE [NoteFatal(m1) EXCEPT !.i = @ + 1]

\* one turn of for p in range(port, port + 20)
Probe(outcome) ==
    /\ main.pc = "Scan"
    /\ main.i < ScanWindow
    /\ main' = AfterBind(main, port + main.i, outcome)
    /\ listener' = IF outcome = "ok" THEN "Starting" ELSE listener
    /\ UNCHANGED <<h, disk, had404>>

\* lines 146-148, the else of the for loop: the message names port and
\* port + 19, then sys.exit(1)
\* the else branch without sys.exit(1)
ExhaustedExitZero(m) ==
    [m EXCEPT !.pc = "Exited", !.diag = <<port, port + 19>>, !.exit = 0]

Exhausted(m) ==
    [m EXCEPT !.pc = "Exited", !.diag = <<port, port + 19>>, !.exit = 1]

ScanExhausted ==
    /\ main.pc = "Scan"
    /\ main.i = ScanWindow
    /\ main' = Exhausted(main)
    /\ UNCHANGED <<h, disk, listener, had404>>

\* lines 119-127: the messages and webbrowser.open(url), whose Exceptions
\* are swallowed. A KeyboardInterrupt here is no Exception and is outside
\* the inner try: it leaves main() with the socket still open
Launch(interrupted) ==
    /\ main.pc = "Launch"
    /\ main' = IF interrupted
               THEN [main EXCEPT !.pc = "Exited", !.error = "KeyboardInterrupt",
                                 !.exit = 130]
               ELSE [main EXCEPT !.pc = "Enter"]
    /\ UNCHANGED <<h, disk, listener, had404>>

\* lines 129-130: serve_forever() starts to accept. A KeyboardInterrupt
\* inside the try before the loop runs goes through the finally clause,
\* where shutdown() waits for a loop that never ran
EnterServe(interrupted) ==
    /\ main.pc = "Enter"
    /\ IF interrupted
       THEN /\ main' = [main EXCEPT !.pc = "Hung"]
            /\ UNCHANGED listener
       ELSE /\ main' = [main EXCEPT !.pc = "Serve",
                                    !.served = Append(@, main.bound[Len(main.bound)])]
            /\ listener' = "Listening"
    /\ UNCHANGED <<h, disk, had404>>

LoopErrors == {"oserror", "other"}

\* serve_forever() raises an exception that is no KeyboardInterrupt: the
\* finally clause runs with the exception pending, lines 133-135
LoopRaises(kind) ==
    /\ listener = "Listening"
    /\ main.pc = "Serve"
    /\ main.loopErrors < MaxLoopErrors
    /\ listener' = "ShuttingDown"
    /\ main' = [main EXCEPT !.pc = "Close", !.pending = kind,
                            !.loopErrors = @ + 1]
    /\ UNCHANGED <<h, disk, had404>>

\* the process starts: nothing bound, no connection
InitMain ==
    /\ disk = [p \in {FileName} |-> FileBytes(MaxSize)]
    /\ h = [w \in Workers |-> IdleHandler]
    /\ listener = "Starting"
    /\ main = MainStart
    /\ had404 = FALSE

\* one run of main() with no client
NextMain ==
    \/ \E outcome \in BindOutcomes : Probe(outcome)
    \/ ScanExhausted
    \/ \E interrupted \in BOOLEAN : Launch(interrupted)
    \/ \E interrupted \in BOOLEAN : EnterServe(interrupted)
    \/ Interrupt
    \/ \E kind \in LoopErrors : LoopRaises(kind)
    \/ ServerClose
    \/ Exit

SpecMain == InitMain /\ [][NextMain]_vars

----------------------------------------------------------------------------
(* Vocabulary of the properties *)

Finished(w) == h[w].pc = "Done"

\* no exception ended the handler: the client took every write, the file
\* gave every read
Clean(w) == h[w].raised = ""

Exists(w) == h[w].path \in DOMAIN disk

Content(w) == disk[h[w].path]

\* the header value 'bytes=S-E' and 'bytes=S-' in decimal
RangeText(S, E) ==
    [present |-> TRUE, value |-> BytesEq \o NatStr(S) \o <<"-">> \o NatStr(E)]

OpenRangeText(S) ==
    [present |-> TRUE, value |-> BytesEq \o NatStr(S) \o <<"-">>]

\* offsets a header of the model can name
Offsets == 0..(4 * MaxSize)

\* the bytes at offsets S through E inclusive
Slice(content, S, E) == SubSeq(content, S + 1, E + 1)

\* the text 'bytes S-E/size'
RangeLine(S, E, size) ==
    <<"b", "y", "t", "e", "s", " ">> \o NatStr(S) \o <<"-">> \o NatStr(E)
        \o <<"/">> \o NatStr(size)

\* the partial response for offsets S..E of the file of handler w
IsPartial(w, S, E) ==
    /\ h[w].statuses = <<206>>
    /\ h[w].hdr.contentLength = NatStr(E - S + 1)
    /\ h[w].hdr.contentRange = RangeLine(S, E, Len(Content(w)))
    /\ h[w].body = Slice(Content(w), S, E)

\* the full response for the file of handler w
IsFull(w) ==
    /\ h[w].statuses = <<200>>
    /\ h[w].hdr.contentLength = NatStr(Len(Content(w)))
    /\ h[w].hdr.contentRange = <<>>
    /\ h[w].body = Content(w)

----------------------------------------------------------------------------
(* Connections served at the same time *)

\* requests of clients that are connected at the same time: the whole file,
\* two disjoint ranges of it, a range that starts at its end, a missing file
ConcRequests ==
    {<<FileName, rh>> : rh \in {Absent, RangeText(0, 0),
                                RangeText(1, MaxSize - 1),
                                OpenRangeText(MaxSize)}}
        \cup {<<"missing.html", Absent>>}

\* faulty variant, a server without ThreadingMixIn: the accept loop handles
\* the request itself and accepts again when it is done
AcceptInline(w) == AcceptOf(w, 1, ConcRequests)

\* ThreadingMixIn.process_request: every accepted connection gets a thread
\* of its own, whatever the other threads are doing
AcceptThreaded(w) == AcceptOf(w, NumWorkers, ConcRequests)

InitConc ==
    /\ disk = [p \in {FileName} |-> FileBytes(MaxSize)]
    /\ h = [w \in Workers |-> IdleHandler]
    /\ listener = "Listening"
    /\ main = MainServing
    /\ had404 = FALSE

NextConc ==
    \/ \E w \in Workers : AcceptThreaded(w)
    \/ \E w \in Workers, sent \in BOOLEAN : Resolve(w, sent)
    \/ \E w \in Workers, sent \in BOOLEAN : SendHead(w, sent)
    \/ \E w \in Workers : CopyFile(w)
    \/ \E w \in Workers, io \in IO : RangeLoop(w, io)
    \/ \E w \in Workers, io \in IO : FullLoop(w, io)
    \/ \E w \in Workers : Finally(w)
    \/ \E w \in Workers : ThreadExit(w)
    \/ Interrupt
    \/ ServerClose
    \/ Exit

SpecConc == InitConc /\ [][NextConc]_vars

\* serve_forever keeps polling the listening socket: a connection that waits
\* to be accepted is accepted. Nothing is assumed of the worker threads,
\* which may stay blocked on their client or their file for ever
AcceptFair == WF_vars(\E w \in Workers : AcceptThreaded(w))

\* the same server with clients and files that do not fail: a worker is
\* slow or stands still, it does not raise
NextSteady ==
    \/ \E w \in Workers : AcceptThreaded(w)
    \/ \E w \in Workers : Resolve(w, TRUE)
    \/ \E w \in Workers : SendHead(w, TRUE)
    \/ \E w \in Workers : CopyFile(w)
    \/ \E w \in Workers : RangeLoop(w, "ok")
    \/ \E w \in Workers : FullLoop(w, "ok")
    \/ \E w \in Workers : Finally(w)
    \/ \E w \in Workers : ThreadExit(w)
    \/ Interrupt
    \/ ServerClose
    \/ Exit

SpecConcFair == InitConc /\ [][NextSteady]_vars /\ AcceptFair

\* the main thread is never starved: once serve_forever has ended it goes
\* through the finally clause and returns. Nothing is assumed of the worker
\* threads
MainFair == WF_vars(ServerClose) /\ WF_vars(Exit)

SpecShutdown == InitConc /\ [][NextSteady]_vars /\ MainFair

----------------------------------------------------------------------------
(* Requests for any path *)

\* a handler for the request path `words`, nothing translated yet
NewRequest(words, rh) == [NewHandler(NoFile, rh) EXCEPT !.url = words]

\* one connection at a time, for any path of the model, with and without a
\* Range header
AcceptUrl(w) ==
    /\ listener = "Listening"
    /\ \A v \in Workers : ~Busy(v)
    /\ w = 1
    /\ \E words \in Urls, rh \in {Absent, RangeText(0, 0)} :
           h' = [h EXCEPT ![w] = NewRequest(words, rh)]
    /\ UNCHANGED <<disk, listener, main, had404>>

\* the served directory holds index.html; next to the directory, outside
\* it, lies another file
InitPath ==
    /\ disk = [p \in {FileName, Outside} |->
                  IF p = FileName THEN FileBytes(MaxSize) ELSE <<83>>]
    /\ h = [w \in Workers |-> IdleHandler]
    /\ listener = "Listening"
    /\ main = MainServing
    /\ had404 = FALSE

NextPath ==
    \/ \E w \in Workers : AcceptUrl(w)
    \/ \E w \in Workers : Resolve(w, TRUE)
    \/ \E w \in Workers : SendHead(w, TRUE)
    \/ \E w \in Workers : CopyFile(w)
    \/ \E w \in Workers : RangeLoop(w, "ok")
    \/ \E w \in Workers : FullLoop(w, "ok")
    \/ \E w \in Workers : Finally(w)
    \/ \E w \in Workers : ThreadExit(w)

SpecPath == InitPath /\ [][NextPath]_vars

----------------------------------------------------------------------------
\* Log calls with any arguments: besides the calls send_response and
\* send_error make, log_message is open to every caller of log_request
\* and log_error.

\* how many further log calls one request makes
MaxLogCalls == 1

LogTexts == {<<"3", "r", "d">>, ErrorMessage(404)}

\* the *args of a log_error call: none, one or two texts
ErrorArgs == UNION {[1..n -> LogTexts] : n \in 0..2}

LogCodes == {200, 301, 404, 500}

\* ranges that are answered 206 and 416
LogRanges == {Absent, RangeText(0, 0), RangeText(MaxSize, MaxSize)}

\* a log call made while the request is read, before send_head runs
LogCall(w) ==
    /\ Alive(w)
    /\ h[w].pc = "Resolving"
    /\ Len(h[w].calls) < MaxLogCalls
    /\ \/ \E code \in LogCodes :
              h' = [h EXCEPT ![w] = LogRequest(h[w], code)]
       \/ \E args \in ErrorArgs :
              h' = [h EXCEPT ![w] = LogMessage(h[w], "log_error", args)]
    /\ UNCHANGED <<disk, listener, main, had404>>

NextLog ==
    \/ \E w \in Workers : AcceptOf(w, 1, Paths \X LogRanges)
    \/ \E w \in Workers : LogCall(w)
    \/ \E w \in Workers, sent \in BOOLEAN : Resolve(w, sent)
    \/ \E w \in Workers, sent \in BOOLEAN : SendHead(w, sent)
    \/ \E w \in Workers : CopyFile(w)
    \/ \E w \in Workers : RangeLoop(w, "ok")
    \/ \E w \in Workers : FullLoop(w, "ok")
    \/ \E w \in Workers : Finally(w)
    \/ \E w \in Workers : ThreadExit(w)

SpecLog == Init /\ [][NextLog]_vars

----------------------------------------------------------------------------
\* GET and HEAD side by side

Commands == {"GET", "HEAD"}

\* a connection is accepted whose request is a GET or a HEAD
AcceptCommand(w) ==
    /\ listener = "Listening"
    /\ ~Busy(w)
    /\ \A v \in Workers : v < w => Busy(v)
    /\ \E req \in ConcRequests, c \in Commands :
           h' = [h EXCEPT ![w] =
                    [NewHandler(req[1], req[2]) EXCEPT !.command = c]]
    /\ UNCHANGED <<disk, listener, main, had404>>

NextHead ==
    \/ \E w \in Workers : AcceptCommand(w)
    \/ \E w \in Workers, sent \in BOOLEAN : Resolve(w, sent)
    \/ \E w \in Workers, sent \in BOOLEAN : SendHead(w, sent)
    \/ \E w \in Workers : CopyFile(w)
    \/ \E w \in Workers : HeadClose(w)
    \/ \E w \in Workers : RangeLoop(w, "ok")
    \/ \E w \in Workers : FullLoop(w, "ok")
    \/ \E w \in Workers : Finally(w)
    \/ \E w \in Workers : ThreadExit(w)

SpecHead == InitConc /\ [][NextHead]_vars

----------------------------------------------------------------------------
\* A source that runs out: the file is shorter than the range asks for, or
\* another process truncates it while the response is streamed.

\* 'bytes=S-E' with S <= E, the end inside the file or up to one past it
CopyRanges ==
    {Absent} \cup
        {RangeText(p[1], p[2]) :
            p \in {q \in (0..MaxSize) \X (0..MaxSize) : q[1] <= q[2]}}

\* the file is cut to n bytes while a handler has it open
Truncate(n) ==
    /\ \E w \in Workers : h[w].f = "open"
    /\ n < Len(disk[FileName])
    /\ disk' = [disk EXCEPT ![FileName] = SubSeq(@, 1, n)]
    /\ UNCHANGED <<h, listener, main, had404>>

NextCopy ==
    \/ \E w \in Workers : AcceptOf(w, 1, {FileName} \X CopyRanges)
    \/ \E w \in Workers : Resolve(w, TRUE)
    \/ \E w \in Workers : SendHead(w, TRUE)
    \/ \E w \in Workers : CopyFile(w)
    \/ \E w \in Workers : RangeLoop(w, "ok")
    \/ \E w \in Workers : FullLoop(w, "ok")
    \/ \E w \in Workers : Finally(w)
    \/ \E w \in Workers : ThreadExit(w)
    \/ \E n \in 0..MaxSize : Truncate(n)

\* the thread of a handler keeps running while the process lives
CopyFair ==
    \A w \in Workers :
        WF_vars(RangeLoop(w, "ok")) /\ WF_vars(Finally(w))

SpecCopy == Init /\ [][NextCopy]_vars /\ CopyFair

----------------------------------------------------------------------------
(* C1: a GET with 'Range: bytes=S-E', 0 <= S <= E < size, that ran to its  *)
(* end without a transport error was answered 206 with Content-Length      *)
(* E-S+1, Content-Range 'bytes S-E/size' and the bytes S..E of the file.   *)
C1_RangeInsideFile ==
    \A w \in Workers :
        (Finished(w) /\ Clean(w) /\ Exists(w)) =>
            \A S \in Offsets, E \in Offsets :
                (S <= E /\ E < Len(Content(w)) /\ h[w].rh = RangeText(S, E))
                    => IsPartial(w, S, E)

\* a three-byte range of a three-byte file, copied in two reads
C1_Witness ==
    \E w \in Workers :
        /\ Finished(w) /\ Clean(w) /\ Exists(w)
        /\ h[w].rh = RangeText(0, 2)
        /\ Len(Content(w)) = 3
        /\ h[w].body = <<65, 66, 67>>

(* C2: a GET for an existing file without a Range header that ran to its   *)
(* end was answered 200 with Content-Length = size and the whole file.     *)
C2_NoRangeIsFull ==
    \A w \in Workers :
        (Finished(w) /\ Clean(w) /\ Exists(w) /\ ~h[w].rh.present) => IsFull(w)

C2_Witness ==
    \E w \in Workers :
        /\ Finished(w) /\ Clean(w) /\ Exists(w) /\ ~h[w].rh.present
        /\ h[w].statuses = <<200>>
        /\ Len(h[w].body) = 3

PastSendHead(w) == h[w].pc \notin {"Idle", "Resolving", "Opened"}

\* the headers 'bytes=S-' and 'bytes=S-E', any E, for each start S
TextsWithStart ==
    [S \in Offsets |->
        {OpenRangeText(S)} \cup {RangeText(S, E) : E \in Offsets}]

(* C3: once send_head has run for 'bytes=S-E' or 'bytes=S-' with           *)
(* S >= size (any E, any size, 0 included), the only status emitted is     *)
(* 416, no file byte is in the body, the handler does not go on to copy,   *)
(* and the file is closed.                                                 *)
C3_StartBeyondEnd ==
    \A w \in Workers :
        (PastSendHead(w) /\ Exists(w)) =>
            \A S \in Offsets :
                (S >= Len(Content(w)) /\ h[w].rh \in TextsWithStart[S])
                    => /\ h[w].statuses = <<416>>
                       /\ h[w].body = <<>>
                       /\ h[w].pc = "Done"
                       /\ h[w].f = "closed"

\* 'bytes=0-' on an empty file
C3_Witness ==
    \E w \in Workers :
        /\ Finished(w) /\ Exists(w)
        /\ Len(Content(w)) = 0
        /\ h[w].rh = OpenRangeText(0)
        /\ h[w].statuses = <<416>>
        /\ h[w].f = "closed"

(* C4: for 0 <= S < size, 'bytes=S-' and 'bytes=S-(size-1)' get the same   *)
(* response: each of the two is the partial response for S..size-1.        *)
C4_OpenEndIsLastByte ==
    \A w \in Workers :
        (Finished(w) /\ Clean(w) /\ Exists(w)) =>
            \A S \in Offsets :
                (/\ S < Len(Content(w))
                 /\ h[w].rh \in {OpenRangeText(S),
                                 RangeText(S, Len(Content(w)) - 1)})
                    => IsPartial(w, S, Len(Content(w)) - 1)

C4_Witness ==
    \E w \in Workers :
        /\ Finished(w) /\ Clean(w) /\ Exists(w)
        /\ Len(Content(w)) = 3
        /\ h[w].rh = OpenRangeText(1)
        /\ h[w].body = <<66, 67>>

\* the whole of v is 'bytes=<digits>-<optional digits>'
WholeMatch(v) ==
    /\ HasPrefix(v, BytesEq)
    /\ \E i \in (Len(BytesEq) + 2)..Len(v) :
           /\ v[i] = "-"
           /\ \A j \in (Len(BytesEq) + 1)..(i - 1) : IsDigit(v[j])
           /\ \A j \in (i + 1)..Len(v) : IsDigit(v[j])

(* C5: a Range header whose whole value is not 'bytes=<digits>-<optional   *)
(* digits>' gets the full response: 200, Content-Length = size, no         *)
(* Content-Range, the whole file.                                          *)
C5_MalformedRangeIsFull ==
    \A w \in Workers :
        (/\ Finished(w) /\ Clean(w) /\ Exists(w)
         /\ h[w].rh.present /\ ~WholeMatch(h[w].rh.value)) => IsFull(w)

\* a path that cannot be opened: 404, nothing of a file, no file object
C6_NotFound(w) ==
    (h[w].pc \notin {"Idle", "Resolving"} /\ ~Exists(w)) =>
        /\ h[w].pc = "Done"
        /\ h[w].statuses = <<404>>
        /\ h[w].body = <<>>
        /\ h[w].f = "none"

\* after a 404, existing files are served as asked
C6_ServedAfter404(w) ==
    (had404 /\ Finished(w) /\ Clean(w) /\ Exists(w)) =>
        /\ ~h[w].rh.present => IsFull(w)
        /\ \A S \in Offsets, E \in Offsets :
               (S <= E /\ E < Len(Content(w)) /\ h[w].rh = RangeText(S, E))
                   => IsPartial(w, S, E)

\* the step that answers 404 leaves the listener as it was
C6_ListenerKept ==
    \A w \in Workers :
        (h[w].pc = "Resolving" /\ ~Exists(w) /\ h'[w].pc # "Resolving")
            => listener' = listener

(* C6: a request for a path that cannot be opened is answered 404 with no  *)
(* file byte and no file handle; the step that answers it leaves the       *)
(* listener as it was, and requests served after a 404 get the full or     *)
(* partial response they ask for.                                          *)
C6_MissingFile ==
    /\ [](\A w \in Workers : C6_NotFound(w) /\ C6_ServedAfter404(w))
    /\ [][C6_ListenerKept]_vars

\* a full response served after an earlier 404, the listener still listening
C6_Witness ==
    \E w \in Workers :
        /\ had404 /\ listener = "Listening"
        /\ Finished(w) /\ Clean(w) /\ Exists(w)
        /\ Len(Content(w)) = 3
        /\ IsFull(w)

(* C7: whenever a handler has finished, on every exit path, its file is    *)
(* not open; and no read is ever issued on a closed file.                  *)
C7_FileClosedOnEveryExit ==
    \A w \in Workers :
        /\ Finished(w) => h[w].f # "open"
        /\ ~h[w].lateRead

\* the client went away in the middle of a body
C7_Witness ==
    \E w \in Workers :
        /\ Finished(w)
        /\ h[w].raised = "write"
        /\ Len(h[w].body) > 0
        /\ h[w].f = "closed"

(* C8: without a transport error a handler emits at most one status line   *)
(* at any time and, when finished, exactly one: 200, 206, 404 or 416.      *)
C8_ExactlyOneStatus ==
    \A w \in Workers :
        /\ Clean(w) => Len(h[w].statuses) <= 1
        /\ (Finished(w) /\ Clean(w)) =>
               /\ Len(h[w].statuses) = 1
               /\ h[w].statuses[1] \in {200, 206, 404, 416}

C8_Witness ==
    \E w \in Workers :
        Finished(w) /\ Clean(w) /\ Exists(w) /\ h[w].statuses = <<416>>

(* C9: for every response with status 206 the number of body bytes is      *)
(* end-start+1 and equals the Content-Length header.                       *)
C9_BodyMatchesContentLength ==
    \A w \in Workers :
        (Finished(w) /\ Clean(w) /\ h[w].statuses = <<206>>) =>
            /\ Len(h[w].body) = h[w].range_request[2] - h[w].range_request[1] + 1
            /\ h[w].hdr.contentLength = IntStr(Len(h[w].body))

(* C10: every recorded range satisfies 0 <= start <= end and start < size, *)
(* so the Content-Length of a 206 is at least 1.                           *)
C10_RecordedRangeValid ==
    \A w \in Workers :
        h[w].range_request # None =>
            /\ 0 <= h[w].range_request[1]
            /\ h[w].range_request[1] <= h[w].range_request[2]
            /\ h[w].range_request[1] < h[w].size
            /\ h[w].range_request[2] - h[w].range_request[1] + 1 >= 1

----------------------------------------------------------------------------
(* The port scan and the life of the listener *)

\* how many times x occurs in seq
Count(seq, x) == Cardinality({k \in DOMAIN seq : seq[k] = x})

Last(seq) == seq[Len(seq)]

(* C11: the binder probes P, P+1, ..., P+19 in ascending order and nothing  *)
(* outside that window; once a candidate has bound, it is the only one that *)
(* ever binds and no port is probed after it; a scan that came to P+19 over *)
(* occupied ports and bound it listens on P+19.                             *)
C11_ProbeOrder ==
    /\ Len(main.probes) <= ScanWindow
    /\ \A k \in DOMAIN main.probes : main.probes[k] = port + k - 1
    /\ main.bound # <<>> =>
           /\ Len(main.bound) = 1
           /\ Last(main.probes) = main.bound[1]
    /\ (main.served # <<>> /\ Len(main.probes) = ScanWindow /\ main.fatalAt = 0)
           => main.served = <<port + 19>>

\* every candidate failed to bind with 'address already in use'
AllInUse ==
    /\ Len(main.probes) = ScanWindow
    /\ main.bound = <<>>
    /\ main.fatalAt = 0

(* C12: when all 20 candidates fail with 'address already in use' the run   *)
(* never listens, and it ends with the message naming P and P+19 and exit   *)
(* status 1.                                                                *)
C12_AllPortsInUse ==
    AllInUse =>
        /\ listener = "Starting"
        /\ main.served = <<>>
        /\ main.pc \in {"Scan", "Exited"}
        /\ main.pc = "Exited" =>
               /\ main.diag = <<port, port + 19>>
               /\ main.exit = 1
               /\ main.error = ""

C12_Witness == AllInUse /\ main.pc = "Exited"

(* C13: a bind attempt that fails otherwise than by 'address already in     *)
(* use' ends the scan at that candidate: the error leaves the run and no    *)
(* later candidate is probed.                                               *)
C13_OtherFailureAborts ==
    main.fatalAt # 0 =>
        /\ Len(main.probes) = main.fatalAt
        /\ main.pc = "Exited"
        /\ main.error # ""

\* where the run stands once an interrupt has stopped the accept loop
C14_State ==
    main.interrupted =>
        /\ main.pc \in {"Close", "Return", "Exited"}
        /\ main.diag = <<>>
        /\ main.pc \in {"Return", "Exited"} =>
               /\ listener = "Stopped"
               /\ Count(main.closed, Last(main.bound)) = 1
        /\ main.pc = "Exited" => main.exit = 0 /\ main.error = ""

\* no port is probed or bound after the interrupt
C14_Step ==
    main.interrupted =>
        /\ main'.probes = main.probes
        /\ main'.bound = main.bound

(* C14: after an interrupt has stopped the accept loop the run closes the   *)
(* listening socket, probes no further port, does not reach the branch of   *)
(* the exhausted scan, and ends with exit code 0.                           *)
C14_InterruptShutsDown == []C14_State /\ [][C14_Step]_vars

C14_Witness ==
    /\ main.interrupted /\ main.pc = "Exited"
    /\ main.closed = main.served /\ main.exit = 0

Rank(state) ==
    CASE state = "Starting" -> 0
      [] state = "Listening" -> 1
      [] state = "ShuttingDown" -> 2
      [] state = "Stopped" -> 3

\* a step never moves the listener back, and binds nothing once the
\* listener has left Listening
C16_Step ==
    /\ Rank(listener') >= Rank(listener)
    /\ Rank(listener) >= 2 => main'.bound = main.bound

(* C16: the listener only moves forward through Starting, Listening,        *)
(* ShuttingDown, Stopped: once it has left Listening, whatever ended the    *)
(* accept loop, no second socket is bound and Starting and Listening are    *)
(* not entered again.                                                       *)
C16_ForwardOnly == [][C16_Step]_vars

----------------------------------------------------------------------------
(* Connections at the same time *)

\* worker w takes a step of a request that fails: an error page is sent or
\* an exception is raised
ErrorStep(w) ==
    /\ h'[w] # h[w]
    /\ h'[w].raised # "" \/ h'[w].errorPage # 0

\* such a step changes nothing but the worker that takes it
C17_Step ==
    \A w \in Workers :
        ErrorStep(w) =>
            /\ listener' = listener
            /\ main' = main
            /\ \A v \in Workers \ {w} : h'[v] = h[v]

\* the answer that the request of worker w asks for
Expected(w) ==
    /\ ~h[w].rh.present => IsFull(w)
    /\ h[w].rh = RangeText(0, 0) => IsPartial(w, 0, 0)
    /\ h[w].rh = RangeText(1, MaxSize - 1) => IsPartial(w, 1, MaxSize - 1)
    /\ h[w].rh = OpenRangeText(MaxSize) =>
           h[w].statuses = <<416>> /\ h[w].body = <<>>

\* the request of worker w failed
Failed(w) == Busy(w) /\ (h[w].raised # "" \/ h[w].errorPage # 0)

\* next to failed requests and after them, a request that meets no failure
\* of its own is served as asked
C17_Served ==
    \A w \in Workers :
        (Finished(w) /\ Clean(w) /\ Exists(w)
            /\ (had404 \/ \E v \in Workers \ {w} : Failed(v)))
                => Expected(w)

\* while it listens the server accepts a connection for a free thread,
\* whatever happened to the other requests
C17_Accepting ==
    \A w \in Workers :
        (listener = "Listening" /\ ~Busy(w) /\ \A v \in Workers : v < w => Busy(v))
            => ENABLED AcceptThreaded(w)

(* C17: a request that fails (404, 416, a read or write that raises while   *)
(* streaming) changes neither the listener state nor the run of main() and  *)
(* its exit code, nor any other worker; while the server listens,           *)
(* connections are accepted next to failed requests and after them, and     *)
(* they are served as asked.                                                *)
C17_ErrorsStayInWorker ==
    /\ [](C17_Served /\ C17_Accepting)
    /\ [][C17_Step]_vars

\* worker 1 ended on a failed write, worker 2 next to it got its range
C17_Witness ==
    /\ listener = "Listening"
    /\ h[1].pc = "Done" /\ h[1].raised = "write"
    /\ Finished(2) /\ Clean(2)
    /\ h[2].rh = RangeText(1, MaxSize - 1)
    /\ IsPartial(2, 1, MaxSize - 1)

\* worker w is the thread that the next connection gets
NextFree(w) == ~Busy(w) /\ \A v \in Workers : v < w => Busy(v)

\* the step that accepts a connection constructs its handler in a thread of
\* its own and does nothing else: nothing of the request is resolved, read
\* or written, and no other worker moves
C18_AcceptStep ==
    \A w \in Workers :
        (~Busy(w) /\ h'[w] # h[w]) =>
            /\ h'[w].pc = "Resolving"
            /\ h'[w].f = "none"
            /\ h'[w].statuses = <<>>
            /\ h'[w].body = <<>>
            /\ \A v \in Workers \ {w} : h'[v] = h[v]

\* wherever the busy workers stand, the listening server can accept
C18_NeverStalled ==
    \A w \in Workers :
        (listener = "Listening" /\ NextFree(w)) => ENABLED AcceptThreaded(w)

\* with the earlier workers busy, the next connection is accepted, unless
\* one of them ends first or the server is stopped
C18_Accepted ==
    \A w \in Workers :
        (listener = "Listening" /\ NextFree(w))
            ~> (Busy(w) \/ (\E v \in Workers : v < w /\ ~Busy(v))
                        \/ listener # "Listening")

(* C18: the accept step reads no request, reads no file and writes no       *)
(* response: it hands the connection to a thread of its own. However many   *)
(* workers are busy, and even if they never take another step, the          *)
(* listening server can accept the next connection and does accept it.      *)
C18_AcceptNeverWaits ==
    /\ []C18_NeverStalled
    /\ [][C18_AcceptStep]_vars
    /\ C18_Accepted

\* a connection accepted while the worker before it is in its copy loop
C18_Witness ==
    /\ h[1].pc \in {"RangeLoop", "FullLoop"}
    /\ h[2].pc = "Resolving"

\* the two disjoint ranges that clients ask for at the same time
ConcRanges == {<<0, 0>>, <<1, MaxSize - 1>>}

\* is p the beginning of s (p may be all of s)
IsPrefix(p, s) == Len(p) <= Len(s) /\ SubSeq(s, 1, Len(p)) = p

\* worker w, serving 'bytes=S-E', copies with the pair that its own
\* send_head recorded, from its own offset, and writes bytes of S..E only
OwnRange(w, S, E) ==
    /\ h[w].pc # "FullLoop"
    /\ h[w].pc \in {"CopyFile", "RangeLoop", "Finally"} =>
           h[w].range_request = <<S, E>>
    /\ h[w].range_request \in {None, <<S, E>>}
    /\ IsPrefix(h[w].body, Slice(Content(w), S, E))
    /\ h[w].pc = "RangeLoop" =>
           /\ h[w].pos = S + Len(h[w].body)
           /\ h[w].remain = (E - S + 1) - Len(h[w].body)
    /\ (Finished(w) /\ Clean(w)) => IsPartial(w, S, E)

C19_State ==
    \A w \in Workers : \A r \in ConcRanges :
        h[w].rh = RangeText(r[1], r[2]) => OwnRange(w, r[1], r[2])

\* a step changes the handler, the offset and the output of one worker
C19_Step ==
    \A w \in Workers : \A v \in Workers \ {w} :
        h'[w] = h[w] \/ h'[v] = h[v]

(* C19: with requests for ranges of the same file served at the same time,  *)
(* under every interleaving each worker copies with the (start, end) pair   *)
(* that the send_head of its own request recorded, reads from its own       *)
(* offset and writes exactly the bytes of its own range; no step of one     *)
(* worker changes the handler or the file offset of another.                *)
C19_RangesIsolated == []C19_State /\ [][C19_Step]_vars

\* two disjoint ranges served at the same time, each complete
C19_Witness ==
    /\ Finished(1) /\ Clean(1) /\ h[1].rh = RangeText(0, 0)
    /\ h[1].body = Slice(Content(1), 0, 0)
    /\ Finished(2) /\ Clean(2) /\ h[2].rh = RangeText(1, MaxSize - 1)
    /\ h[2].body = Slice(Content(2), 1, MaxSize - 1)

----------------------------------------------------------------------------
(* Workers and the end of the process *)

\* the places of a handler before and after the headers are computed
Streaming == {"Resolving", "CopyFile", "RangeLoop", "FullLoop", "Finally", "Done"}

\* the handler of worker w can take the step that comes next for it, with
\* a client and a file that do not fail
CanGoOn(w) ==
    CASE h[w].pc = "Resolving" -> ENABLED Resolve(w, TRUE)
      [] h[w].pc = "CopyFile" -> ENABLED CopyFile(w)
      [] h[w].pc = "RangeLoop" -> ENABLED RangeLoop(w, "ok")
      [] h[w].pc = "FullLoop" -> ENABLED FullLoop(w, "ok")
      [] h[w].pc = "Finally" -> ENABLED Finally(w)
      [] h[w].pc = "Done" -> ENABLED ThreadExit(w)
      [] OTHER -> FALSE

\* the statement as the specification has it: when the process is gone,
\* every handler that was in flight has reached the end of its response
C20_InFlightRunToDone ==
    main.pc = "Exited" => \A w \in Workers : Busy(w) => Finished(w)

\* the steps of main() that stop the server leave every worker as it is,
\* and once the process has exited no handler changes any more
C20_Step ==
    /\ main' # main => h' = h
    /\ main.pc = "Exited" => h' = h

\* as long as the process lives a dispatched worker can go on, whatever the
\* listener state; once the process has exited it cannot
C20_State ==
    \A w \in Workers :
        h[w].pc \in Streaming => (CanGoOn(w) <=> main.pc # "Exited")

(* C20: after an interrupt, shutdown() and server_close() cancel no worker: *)
(* they leave every handler as it is, and a dispatched handler can go on    *)
(* towards the end of its response while the listener is ShuttingDown or    *)
(* Stopped. Nothing waits for the workers: when main() returns the process  *)
(* exits, and a handler still in flight is cut off where it stands.         *)
C20_NotCancelledNotAwaited == []C20_State /\ [][C20_Step]_vars

\* the process has exited after an interrupt: one handler had finished,
\* another was cut off in its copy loop
C20_Witness ==
    /\ main.pc = "Exited" /\ main.interrupted
    /\ h[1].pc \in {"RangeLoop", "FullLoop"}
    /\ Finished(2)

----------------------------------------------------------------------------
(* The end of the run *)

\* the steps that end the run wait for no worker
C21_NoWaiting ==
    /\ main.pc = "Close" => ENABLED ServerClose
    /\ main.pc = "Return" => ENABLED Exit

\* the run is over: socket closed, process gone with status 0
Gone == listener = "Stopped" /\ main.pc = "Exited" /\ main.exit = 0

(* C21: after an interrupt received while listening, the listener reaches   *)
(* Stopped and the process exits, also when workers never take another      *)
(* step: closing the socket and leaving main() wait for no worker thread.   *)
C21_ExitsDespiteWorkers ==
    /\ []C21_NoWaiting
    /\ main.interrupted ~> Gone

\* the process is gone while both workers were still in their copy loops
C21_Witness ==
    /\ Gone /\ main.interrupted
    /\ h[1].pc \in {"RangeLoop", "FullLoop"}
    /\ h[2].pc \in {"RangeLoop", "FullLoop"}

----------------------------------------------------------------------------
(* Request paths *)

\* followed component by component, the path leaves the served directory
Escapes(words) ==
    LET n == OsNorm(words, <<>>) IN n # <<>> /\ n[1] = ".."

\* the handler of worker w has translated its path
Translating(w) == h[w].pc \notin {"Idle", "Resolving"}

\* the file opened, if any, lies in the served directory
C22_Contained ==
    \A w \in Workers :
        (Translating(w) /\ h[w].f # "none") => h[w].path = FileName

\* a path that leaves the directory is answered 404, nothing opened or sent
C22_EscapeIsNotFound ==
    \A w \in Workers :
        (Translating(w) /\ Escapes(h[w].url)) =>
            /\ h[w].statuses = <<404>>
            /\ h[w].f = "none"
            /\ h[w].body = <<>>
            /\ ~h[w].delegated

(* C22: whatever the request path, '..' components included, the file the   *)
(* handler opens lies in the served directory; a path whose '..' components *)
(* lead out of the directory opens and serves nothing and is answered 404.  *)
C22_NoTraversal == C22_Contained /\ C22_EscapeIsNotFound

----------------------------------------------------------------------------
\* The log

Calls(w) == {h[w].calls[i] : i \in 1..Len(h[w].calls)}

\* the call is a request log whose status text starts with one of the digits
RequestLogOf(call, digits) ==
    /\ call.via = "log_request"
    /\ \E d \in digits : StartsWith(call.args[2], d)

RequestsLoggedByStatus ==
    \A w \in Workers : \A call \in Calls(w) :
        /\ RequestLogOf(call, {"2", "3"}) => ~call.written
        /\ RequestLogOf(call, {"4", "5"}) => call.written

\* the error messages the handler and its base class log: one argument,
\* or the code and the message of send_error
HandlerErrorArgs ==
    {args \in ErrorArgs : Len(args) <= 1}
        \cup {<<IntStr(code), ErrorMessage(code)>> : code \in {404, 416}}

\* every status the handler emitted made its log calls
StatusesLogged ==
    \A w \in Workers : \A i \in 1..Len(h[w].statuses) :
        LET code == h[w].statuses[i] IN
        /\ [via |-> "log_request",
            args |-> <<RequestLine, IntStr(code), <<"-">>>>,
            written |-> code >= 400] \in Calls(w)
        /\ code >= 400 =>
               [via |-> "log_error",
                args |-> <<IntStr(code), ErrorMessage(code)>>,
                written |-> TRUE] \in Calls(w)

----------------------------------------------------------------------------
\* Repeated requests

\* what the client of handler w received
Response(w) ==
    [statuses |-> h[w].statuses, hdr |-> h[w].hdr,
     errorPage |-> h[w].errorPage, body |-> h[w].body]

SameRequest(v, w) == h[v].url = h[w].url /\ h[v].rh = h[w].rh

(* C24: two requests with the same path and the same Range header, both    *)
(* answered to the end without a transport error against the same file     *)
(* content, got the same status, headers and body, whatever the other      *)
(* worker served before or meanwhile.                                      *)
C24_Idempotent ==
    \A v \in Workers, w \in Workers :
        (Finished(v) /\ Finished(w) /\ Clean(v) /\ Clean(w)
            /\ SameRequest(v, w))
            => Response(v) = Response(w)

C24_Witness ==
    \E v \in Workers, w \in Workers :
        /\ v # w
        /\ Finished(v) /\ Finished(w) /\ Clean(v) /\ Clean(w)
        /\ SameRequest(v, w)
        /\ h[v].rh = RangeText(1, MaxSize - 1)
        /\ h[v].statuses = <<206>>
        /\ Len(h[v].body) > 0

----------------------------------------------------------------------------
\* Response headers

\* the headers every answer with a body of the file carries
CarriesFileHeaders(w) ==
    /\ h[w].hdr.ctype # ""
    /\ h[w].hdr.acceptRanges = "bytes"
    /\ h[w].hdr.contentLength # <<>>

HasContentRange(w) == h[w].hdr.contentRange # <<>>

(* C25: a handler that emitted 200 or 206 for a regular file emitted        *)
(* Content-Type, 'Accept-Ranges: bytes' and Content-Length with it;         *)
(* Content-Range is among the headers exactly when the status is 206; a    *)
(* handler that emitted 404 or 416 emitted no Content-Range.               *)
C25_Headers ==
    \A w \in Workers :
        /\ h[w].statuses \in {<<>>, <<200>>, <<206>>, <<404>>, <<416>>}
        /\ h[w].statuses \in {<<200>>, <<206>>} => CarriesFileHeaders(w)
        /\ h[w].statuses # <<>> =>
               (HasContentRange(w) <=> h[w].statuses = <<206>>)

C25_Witness ==
    \E w \in Workers :
        /\ Finished(w) /\ Clean(w)
        /\ h[w].statuses = <<206>>
        /\ CarriesFileHeaders(w)
        /\ h[w].hdr.contentRange = RangeLine(1, 2, Len(Content(w)))

----------------------------------------------------------------------------
\* The range copy loop

InRangeLoop(w) == h[w].pc = "RangeLoop"

\* one turn of the loop: it is left, or the budget went down by the length
\* of a chunk that was not empty
C26_TurnStopsOrShrinks ==
    \A w \in Workers :
        (InRangeLoop(w) /\ h'[w] # h[w]) =>
            \/ h'[w].pc = "Finally" /\ h'[w].remain = h[w].remain
            \/ /\ h'[w].pc = "RangeLoop"
               /\ h[w].remain > 0
               /\ h'[w].remain <= h[w].remain - 1
               /\ Len(h'[w].body) - Len(h[w].body)
                      = h[w].remain - h'[w].remain

\* the loop was left with budget to spare: the source had run out, nothing
\* was raised, and after the finally clause the file is closed
C26_EarlyEnd ==
    \A w \in Workers :
        /\ (h[w].pc \in {"Finally", "Done"} /\ h[w].range_request # None
                /\ h[w].remain > 0)
               => h[w].pos >= Len(disk[h[w].path]) /\ h[w].raised = ""
        /\ (Finished(w) /\ h[w].range_request # None)
               => h[w].f = "closed" /\ h[w].raised = ""

(* C26: every turn of the range copy loop either leaves the loop or takes  *)
(* at least one byte from the budget; a loop that is left with budget to   *)
(* spare was left because the source had run out (the file is shorter than *)
(* the range, or was truncated meanwhile), without an exception, and the   *)
(* file is closed afterwards; a handler in the loop eventually finishes.   *)
C26_CopyLoopTerminates ==
    /\ [][C26_TurnStopsOrShrinks]_vars
    /\ []C26_EarlyEnd
    /\ \A w \in Workers :
           InRangeLoop(w) ~> (Finished(w) /\ h[w].f = "closed")

\* a response that ended early because the file was truncated under it
C26_Witness ==
    \E w \in Workers :
        /\ Finished(w)
        /\ h[w].statuses = <<206>>
        /\ h[w].remain > 0
        /\ Len(h[w].body) > 0
        /\ Len(disk[h[w].path]) < h[w].size
        /\ h[w].f = "closed"

----------------------------------------------------------------------------
\* The budget of the range copy

\* handler w is in, or past, the range copy of the range S..E
CopiesRange(w, S, E) ==
    /\ h[w].pc \in {"RangeLoop", "Finally", "Done"}
    /\ h[w].range_request = <<S, E>>

C27_BudgetNotNegative ==
    \A w \in Workers : \A S \in Offsets, E \in Offsets :
        CopiesRange(w, S, E) => h[w].remain >= 0

\* written + remain = end - start + 1, and what was written are the bytes
\* of the file from offset S on, none past offset E
C27_BudgetAccounts ==
    \A w \in Workers : \A S \in Offsets, E \in Offsets :
        CopiesRange(w, S, E) =>
            /\ Len(h[w].body) + h[w].remain = E - S + 1
            /\ h[w].remain >= 0 => Len(h[w].body) <= E - S + 1
            /\ \A i \in 1..Len(h[w].body) :
                   /\ S + i - 1 <= E
                   /\ S + i <= Len(Content(w))
                   /\ h[w].body[i] = Content(w)[S + i]

\* a turn of the loop (remain > 0) writes no more than min(bs, remain) bytes
C27_ReadWithinBudget ==
    \A w \in Workers :
        (h[w].pc = "RangeLoop" /\ h[w].remain > 0
            /\ h'[w].pc \in {"RangeLoop", "Finally"}) =>
            Len(h'[w].body) - Len(h[w].body)
                <= Min(ChunkSize, h[w].remain)

(* C27: throughout the copy of a recorded range start..end the budget      *)
(* remain is never negative, a turn of the loop reads at most              *)
(* min(bs, remain) bytes, the bytes written plus remain equal              *)
(* end - start + 1, and the body holds at most end - start + 1 bytes, all  *)
(* of them bytes of the file at offsets start..end.                        *)
C27_CopyBudget ==
    /\ []C27_BudgetNotNegative
    /\ []C27_BudgetAccounts
    /\ [][C27_ReadWithinBudget]_vars

\* what holds of the budget for every Range header, 'bytes=2-0' included
C27_RestHolds == []C27_BudgetAccounts /\ [][C27_ReadWithinBudget]_vars

----------------------------------------------------------------------------
\* An interrupt at any point after the bind

\* main() never waits in shutdown() for a loop that is not running
C28_ShutdownReturns == main.pc # "Hung"

\* a process that had bound a socket and is gone has closed it, and no
\* KeyboardInterrupt left main()
C28_ClosedBeforeExit ==
    (main.pc = "Exited" /\ main.bound # <<>>) =>
        /\ main.error # "KeyboardInterrupt"
        /\ listener = "Stopped"
        /\ Len(main.closed) = Len(main.bound)

(* C28: wherever the interrupt arrives once a socket is bound - during the *)
(* browser launch, between the entry of the guarded block and the start of *)
(* the accept loop, or inside the accept loop - shutdown() returns, the    *)
(* listening socket is closed by server_close(), and the process ends      *)
(* Stopped.                                                                *)
C28_InterruptAnywhereShutsDown == C28_ShutdownReturns /\ C28_ClosedBeforeExit

----------------------------------------------------------------------------
\* What a client reads in the headers of a 206

\* int(text) for a decimal with an optional sign
SignedInt(text) ==
    IF Len(text) > 0 /\ text[1] = "-"
    THEN 0 - ParseInt(SubSeq(text, 2, Len(text)))
    ELSE ParseInt(text)

\* the run of digits of text that starts at index i
DigitsAt(text, i) == SubSeq(text, i, i + DigitRun(text, i) - 1)

\* the three numbers of 'bytes <start>-<end>/<size>'
CRStart(text) == ParseInt(DigitsAt(text, 7))

CREndAt(text) == 7 + DigitRun(text, 7) + 1

CREnd(text) == ParseInt(DigitsAt(text, CREndAt(text)))

CRSize(text) ==
    ParseInt(DigitsAt(text, CREndAt(text) + DigitRun(text, CREndAt(text)) + 1))

(* C29: in every 206 the end offset of Content-Range is less than the size *)
(* after the slash and Content-Length is at most size - start, for every   *)
(* Range header the parser accepts.                                        *)
C29_RangeWithinFile ==
    \A w \in Workers :
        h[w].statuses = <<206>> =>
            LET text == h[w].hdr.contentRange IN
            /\ CREnd(text) < CRSize(text)
            /\ SignedInt(h[w].hdr.contentLength)
                   <= CRSize(text) - CRStart(text)

\* the headers are read as they were written
C29_HeadersParse ==
    \A w \in Workers :
        h[w].range_request # None =>
            LET text == h[w].hdr.contentRange IN
            /\ <<CRStart(text), CREnd(text)>> = h[w].range_request
            /\ CRSize(text) = h[w].size
            /\ SignedInt(h[w].hdr.contentLength)
                   = h[w].range_request[2] - h[w].range_request[1] + 1

----------------------------------------------------------------------------
\* HEAD

IsHead(w) == h[w].command = "HEAD"

\* a HEAD and a GET for the same path and Range header, both answered
HeadBesideGet(v, w) ==
    /\ IsHead(v) /\ h[w].command = "GET"
    /\ SameRequest(v, w)
    /\ Finished(v) /\ Clean(v) /\ Finished(w) /\ Clean(w)

(* C30: a HEAD for a regular file gets the status and the headers of the   *)
(* GET for the same path and Range header; it sends no body byte, never    *)
(* enters the copy (the recorded range is not used), and its file is       *)
(* closed when the handler is done.                                        *)
C30_HeadLikeGetWithoutBody ==
    /\ \A v \in Workers, w \in Workers :
           HeadBesideGet(v, w) =>
               h[v].statuses = h[w].statuses /\ h[v].hdr = h[w].hdr
    /\ \A v \in Workers :
           IsHead(v) =>
               /\ h[v].body = <<>> /\ h[v].errorPage = 0
               /\ h[v].pc \notin {"RangeLoop", "FullLoop", "Finally"}
               /\ h[v].remain = 0
               /\ Finished(v) => h[v].f \in {"closed", "none"}

C30_Witness ==
    \E v \in Workers, w \in Workers :
        /\ HeadBesideGet(v, w)
        /\ h[v].rh = RangeText(1, MaxSize - 1)
        /\ h[v].statuses = <<206>>
        /\ h[v].range_request = <<1, MaxSize - 1>>
        /\ h[v].f = "closed"
        /\ Len(h[w].body) > 0

====
